---- MODULE Spec2Model ----
(***************************************************************************)
(* A model of app.py: the start-up weight loading (load_model), the       *)
(* request handler (predict) and the point-cloud / mesh pipeline          *)
(* (generate_mesh).  Requests are served one at a time, each statement of  *)
(* the handler is one step, and any step that calls into a library may     *)
(* raise, which ends the request.                                          *)
(*                                                                         *)
(* Grids are scaled down: the source fixes W = H = 512 and uses the        *)
(* literal 512 in the mirror formula; the model keeps the three equal and  *)
(* derives them from GridSize.                                             *)
(***************************************************************************)
EXTENDS Integers, Sequences, FiniteSets, TLC

VARIABLES
    ckpt,          \* load_model: torch.load(path)["state_dict"], key -> tensor
    weights,       \* load_model: the re-keyed dict handed to load_state_dict
    model_state,   \* "unloaded" | "ready" | "load_error"
    pc,            \* the statement of predict / generate_mesh to run next
    image_path,    \* predict: Path(image_path)
    file,          \* the uploaded file: [ok, img]
    pil_image,     \* predict: the decoded single-channel image
    model_out,     \* predict: the network's output, before squeeze and inversion
    pred_dtm,      \* predict: pred_dtm (squeezed, then inverted)
    image_scaled,  \* predict: image_scaled
    points,        \* generate_mesh: points
    colors,        \* generate_mesh: colors
    written,       \* how many times the loop has assigned each index
    i,             \* generate_mesh: loop row
    j,             \* generate_mesh: loop column
    pcd,           \* generate_mesh: the point cloud object
    mesh,          \* generate_mesh: mesh
    recon,         \* the mesh as the reconstruction returned it
    before,        \* the mesh before the latest post-processing step
    out_path,      \* generate_mesh: out_path
    fs,            \* the working directory: file name -> mesh written there
    fs0,           \* the working directory when the request began
    render,        \* predict: the arguments of imshow
    result,        \* what predict returned: [kind, data, path]
    trace,         \* the statements this request has completed, in order
    raised_at,     \* the statement that failed, "" when none has
    write_ok,      \* what write_triangle_mesh returned: "unset" | "true" | "false"
    served,        \* file name -> mesh of the latest request that returned that name
    all_ok,        \* no request so far has ended in an exception
    nreq           \* requests received so far

load_vars == <<ckpt, weights, model_state>>
grid_vars == <<pil_image, model_out, pred_dtm, image_scaled>>
cloud_vars == <<points, colors, written, i, j, pcd>>
mesh_vars == <<mesh, recon, before>>
req_vars == <<image_path, file, out_path, fs, fs0, render, result, trace,
              raised_at, write_ok, served, all_ok, nreq>>
vars == <<load_vars, pc, grid_vars, cloud_vars, mesh_vars, req_vars>>

-----------------------------------------------------------------------------
(* Bounds of the model *)

GridSize == 2
MaxPixel == 2
MaxDepth == 2
MaxKeys == 3
MaxTris == 3
MaxRequests == 2

-----------------------------------------------------------------------------
(* Program constants *)

W == GridSize
H == GridSize
\* the literal 512 of abs(j - 512); it equals W in the source
MirrorOrigin == GridSize
\* k[6:]
PrefixLen == 6
\* np.asarray(pil_image) / 255.0
PixelScale == 255

Abs(x) == IF x < 0 THEN -x ELSE x

-----------------------------------------------------------------------------
(* load_model *)

KeyPrefixes ==
    { <<"m","o","d","e","l",".">>, <<"m","o","d","u","l","e">>,
      <<"n","e","t",".","x">> }
KeySuffixes == { <<"a">>, <<"b">>, <<"x","a">> }
CkptKeys == { p \o s : p \in KeyPrefixes, s \in KeySuffixes }
Tensors == { "t1", "t2" }

\* the parameter names GLPDepth.state_dict() expects
ExpectedKeys == { <<"a">>, <<"b">> }

EmptyDict == [k \in {} |-> "t1"]

Checkpoints ==
    UNION { [K -> Tensors] :
            K \in { S \in SUBSET CkptKeys : Cardinality(S) <= MaxKeys } }

StripKeyShort(k) == SubSeq(k, PrefixLen, Len(k))

\* k[6:]
StripKey(k) == SubSeq(k, PrefixLen + 1, Len(k))

\* {k[6:]: v for (k, v) in weights.items()}: a later item replaces an earlier
\* one with the same new key; the order of the items is the checkpoint's
Rekeyed(w) ==
    LET NewKeys == { StripKey(k) : k \in DOMAIN w }
    IN  { d \in [NewKeys -> Tensors] :
            \A n \in NewKeys : \E k \in DOMAIN w : StripKey(k) = n /\ w[k] = d[n] }

InitLoad ==
    /\ ckpt \in Checkpoints
    /\ weights = EmptyDict
    /\ model_state = "unloaded"

LoadModel ==
    /\ model_state = "unloaded"
    /\ \E d \in Rekeyed(ckpt) :
        /\ weights' = d
        /\ model_state' = IF DOMAIN d = ExpectedKeys THEN "ready" ELSE "load_error"
    /\ UNCHANGED <<ckpt, pc, grid_vars, cloud_vars, mesh_vars, req_vars>>

-----------------------------------------------------------------------------
(* Arrays.  A grid is [shape, at]: shape is the sequence of its dimensions  *)
(* and at maps the cell <<row, column>> (0-based) to its value.            *)

Cells(h, w) == (0 .. h - 1) \X (0 .. w - 1)

NoGrid == [shape |-> <<>>, at |-> [c \in {} |-> 0]]

\* a grid whose cell (r, c) holds (a*r + b*c + d) mod (top + 1)
LinearGrid(h, w, a, b, d, top) ==
    [shape |-> <<h, w>>,
     at |-> [c \in Cells(h, w) |-> (a * c[1] + b * c[2] + d) % (top + 1)]]

GridValues(g) == { g.at[c] : c \in DOMAIN g.at }

\* ndarray.max()
GridMax(g) == CHOOSE m \in GridValues(g) : \A v \in GridValues(g) : v <= m

GridMin(g) == CHOOSE m \in GridValues(g) : \A v \in GridValues(g) : m <= v

\* ndarray.squeeze(): the dimensions of length 1 are dropped
Squeeze(g) == [g EXCEPT !.shape = SelectSeq(g.shape, LAMBDA d : d # 1)]

\* whether a[r, c] is a valid index of array a
InBounds(a, r, c) ==
    /\ Len(a.shape) = 2
    /\ r < a.shape[1]
    /\ c < a.shape[2]

\* pred_dtm.max() - pred_dtm
Invert(g) == [g EXCEPT !.at = [c \in DOMAIN g.at |-> GridMax(g) - g.at[c]]]

\* np.asarray(pil_image) / 255.0: a value is the fraction <<numerator, 255>>
ScaleImage(g) == [g EXCEPT !.at = [c \in DOMAIN g.at |-> <<g.at[c], PixelScale>>]]

ZeroFloat == <<0, PixelScale>>

NoArray == [k \in {} |-> <<0, 0, 0>>]

\* np.zeros(shape=(W * H, 3)) for points
ZeroPoints == [k \in 0 .. W * H - 1 |-> <<0, 0, 0>>]

\* np.zeros(shape=(W * H, 3)) for colors
ZeroColors == [k \in 0 .. W * H - 1 |-> <<ZeroFloat, ZeroFloat, ZeroFloat>>]

-----------------------------------------------------------------------------
(* generate_mesh: the point cloud *)

\* the row index i * H + j of points and colors
CloudIndex(r, c) == r * H + c

PointAtUnmirrored(dtm, r, c) == <<c, r, dtm.at[<<r, c>>]>>

\* points[k, 0] = abs(j - 512); points[k, 1] = i; points[k, 2] = dtm[i, j]
PointAt(dtm, r, c) == <<Abs(c - MirrorOrigin), r, dtm.at[<<r, c>>]>>

ColorAtFirstChannel(image, r, c) == <<image.at[<<r, c>>], ZeroFloat, ZeroFloat>>

\* colors[k, :3] = image[i, j]: the scalar is broadcast to the three channels
ColorAt(image, r, c) == <<image.at[<<r, c>>], image.at[<<r, c>>], image.at[<<r, c>>]>>

NoPcd == [points |-> NoArray, colors |-> NoArray, normals |-> "none"]

-----------------------------------------------------------------------------
(* The geometry library's mesh operations.  A mesh is [v, t, vn]: v the     *)
(* sequence of vertex positions, t the sequence of triangles (triples of   *)
(* 1-based vertex indices), vn whether vertex normals are present.         *)

NoMesh == [v |-> <<>>, t |-> <<>>, vn |-> FALSE]

NumVertices(m) == Len(m.v)
NumTriangles(m) == Len(m.t)

\* the elements of s at the indices in K, in order
SubseqAt(s, K) ==
    LET F[n \in 0 .. Len(s)] ==
            IF n = 0 THEN <<>>
            ELSE IF n \in K THEN Append(F[n - 1], s[n]) ELSE F[n - 1]
    IN  F[Len(s)]

\* mesh.rotate(get_rotation_matrix_from_xyz((pi, 0, 0)), center=(0, 0, 0))
RotateX180(m) ==
    [m EXCEPT !.v = [k \in 1 .. Len(m.v) |-> <<m.v[k][1], 0 - m.v[k][2], 0 - m.v[k][3]>>]]

\* mesh.compute_vertex_normals()
ComputeVertexNormals(m) == [m EXCEPT !.vn = TRUE]

Cross(a, b) ==
    <<a[2] * b[3] - a[3] * b[2], a[3] * b[1] - a[1] * b[3], a[1] * b[2] - a[2] * b[1]>>

Minus(a, b) == <<a[1] - b[1], a[2] - b[2], a[3] - b[3]>>

ZeroArea(m, tri) ==
    Cross(Minus(m.v[tri[2]], m.v[tri[1]]), Minus(m.v[tri[3]], m.v[tri[1]])) = <<0, 0, 0>>

\* mesh.remove_degenerate_triangles(): triangles of zero area are removed
RemoveDegenerateTriangles(m) ==
    [m EXCEPT !.t = SubseqAt(m.t, { k \in 1 .. Len(m.t) : ~ZeroArea(m, m.t[k]) })]

VertexSet(tri) == { tri[1], tri[2], tri[3] }

\* mesh.remove_duplicated_triangles(): of the triangles on the same vertex set,
\* whatever their winding, the first is kept
RemoveDuplicatedTriangles(m) ==
    [m EXCEPT !.t = SubseqAt(m.t,
        { k \in 1 .. Len(m.t) :
            \A k2 \in 1 .. k - 1 : VertexSet(m.t[k2]) # VertexSet(m.t[k]) })]

\* mesh.remove_duplicated_vertices(): vertices at the same position are merged
\* into the first of them and the triangles are re-indexed
RemoveDuplicatedVertices(m) ==
    LET Kept == { k \in 1 .. Len(m.v) : \A k2 \in 1 .. k - 1 : m.v[k2] # m.v[k] }
        First(k) == CHOOSE f \in Kept : m.v[f] = m.v[k]
        NewIndex(k) == Cardinality({ f \in Kept : f <= First(k) })
    IN  [m EXCEPT
            !.v = SubseqAt(m.v, Kept),
            !.t = [n \in 1 .. Len(m.t) |->
                     <<NewIndex(m.t[n][1]), NewIndex(m.t[n][2]), NewIndex(m.t[n][3])>>]]

Edges(tri) ==
    { e \in { {tri[1], tri[2]}, {tri[2], tri[3]}, {tri[1], tri[3]} } : Cardinality(e) = 2 }

Incident(t, e) == { k \in 1 .. Len(t) : e \in Edges(t[k]) }

NonManifoldEdges(t) ==
    { e \in UNION { Edges(t[k]) : k \in 1 .. Len(t) } : Cardinality(Incident(t, e)) > 2 }

RECURSIVE ManifoldTriangles(_)
ManifoldTriangles(t) ==
    IF NonManifoldEdges(t) = {} THEN t
    ELSE LET e == CHOOSE x \in NonManifoldEdges(t) : TRUE
             drop == CHOOSE k \in Incident(t, e) : \A k2 \in Incident(t, e) : k2 <= k
         IN  ManifoldTriangles(SubseqAt(t, (1 .. Len(t)) \ {drop}))

\* mesh.remove_non_manifold_edges(): while an edge is shared by more than two
\* triangles, one of the triangles on it is removed
RemoveNonManifoldEdges(m) == [m EXCEPT !.t = ManifoldTriangles(m.t)]

-----------------------------------------------------------------------------
(* predict and generate_mesh, statement by statement *)

StageOrder ==
    << "open", "to_tensor", "model", "squeeze", "invert", "scale",
       "gm_alloc", "gm_loop", "gm_pcd", "estimate_normals", "orient_normals",
       "poisson", "rotate", "vertex_normals", "degenerate", "dup_triangles",
       "dup_vertices", "non_manifold", "export", "imshow", "draw", "return" >>

Stages == { StageOrder[n] : n \in 1 .. Len(StageOrder) }

StageIndex(s) == CHOOSE n \in 1 .. Len(StageOrder) : StageOrder[n] = s

NextStageExportFirst(s) ==
    CASE s = "poisson" -> "export"
      [] s = "export" -> "rotate"
      [] s = "non_manifold" -> "imshow"
      [] OTHER -> IF s = "return" THEN "done" ELSE StageOrder[StageIndex(s) + 1]

\* the statement that follows statement s
NextStage(s) == IF s = "return" THEN "done" ELSE StageOrder[StageIndex(s) + 1]

PostStages == { "rotate", "vertex_normals", "degenerate", "dup_triangles",
                "dup_vertices", "non_manifold" }

\* the statements that cannot raise: the loop's only failure is its index
\* error, and return fails never
Fallible == Stages \ { "gm_loop", "return" }

PostProcessMerging(s, m) ==
    CASE s = "rotate" -> [m EXCEPT !.v = m.v \o RotateX180(m).v]
      [] s = "vertex_normals" -> ComputeVertexNormals(m)
      [] s = "degenerate" -> RemoveDegenerateTriangles(m)
      [] s = "dup_triangles" -> RemoveDuplicatedTriangles(m)
      [] s = "dup_vertices" -> RemoveDuplicatedVertices(m)
      [] s = "non_manifold" -> RemoveNonManifoldEdges(m)

\* the mesh call made by post-processing statement s
PostProcess(s, m) ==
    CASE s = "rotate" -> RotateX180(m)
      [] s = "vertex_normals" -> ComputeVertexNormals(m)
      [] s = "degenerate" -> RemoveDegenerateTriangles(m)
      [] s = "dup_triangles" -> RemoveDuplicatedTriangles(m)
      [] s = "dup_vertices" -> RemoveDuplicatedVertices(m)
      [] s = "non_manifold" -> RemoveNonManifoldEdges(m)

\* the four calls under "remove weird artifacts", in the order of the source
Cleanup(m) ==
    PostProcess("non_manifold",
        PostProcess("dup_vertices",
            PostProcess("dup_triangles", PostProcess("degenerate", m))))

\* Path(image_path).stem: the last component, without its last suffix
Stem(path) ==
    LET slashes == { n \in 1 .. Len(path) : path[n] = "/" }
        from == IF slashes = {} THEN 1
                ELSE 1 + CHOOSE n \in slashes : \A n2 \in slashes : n2 <= n
        name == SubSeq(path, from, Len(path))
        dots == { n \in 2 .. Len(name) - 1 : name[n] = "." }
    IN  IF dots = {} THEN name
        ELSE SubSeq(name, 1, (CHOOSE n \in dots : \A n2 \in dots : n2 <= n) - 1)

\* f"{image_path.stem}.obj"
OutPath(path) == Stem(path) \o << ".", "obj" >>

NoFiles == [n \in {} |-> NoMesh]

NoRender == [called |-> FALSE, vmin |-> 0, vmax |-> 0, grid |-> NoGrid]

RenderArgsFixedScale(dtm) ==
    [called |-> TRUE, vmin |-> 0, vmax |-> MaxDepth, grid |-> dtm]

\* ax.imshow(pred_dtm, cmap="jet", vmin=0, vmax=np.max(pred_dtm))
RenderArgs(dtm) == [called |-> TRUE, vmin |-> 0, vmax |-> GridMax(dtm), grid |-> dtm]

NoResult == [kind |-> "none", data |-> NoRender, path |-> <<>>]

-----------------------------------------------------------------------------
(* The inputs of a request and the answers of the opaque collaborators *)

RequestPaths ==
    { << "up", "/", "a", ".", "png" >>, << "ex", "/", "a", ".", "jpg" >>,
      << "a", ".", "b", ".", "png" >> }

Undecodable == [ok |-> FALSE, img |-> NoGrid]

RequestFiles ==
    { Undecodable,
      [ok |-> TRUE, img |-> LinearGrid(H, W, 1, 2, 0, MaxPixel)],
      [ok |-> TRUE, img |-> LinearGrid(H, W, 0, 0, 1, MaxPixel)],
      [ok |-> TRUE, img |-> LinearGrid(H + 1, W + 1, 1, 1, 0, MaxPixel)],
      [ok |-> TRUE, img |-> LinearGrid(H - 1, W, 1, 1, 0, MaxPixel)] }

\* what the network may answer for an image: a grid of the image's shape
PredictorOutputs(img) ==
    { LinearGrid(img.shape[1], img.shape[2], 0, 0, 1, MaxDepth),
      LinearGrid(img.shape[1], img.shape[2], 1, 2, 0, MaxDepth) }

PA == <<0, 0, 0>>
PB == <<1, 0, 0>>
PC == <<0, 1, 0>>
PD == <<2, 0, 0>>
PE == <<0, 0, 1>>
PF == <<1, 1, 1>>

TriangleMesh(v, t) == [v |-> v, t |-> t, vn |-> FALSE]

\* what the reconstruction may return in a request
PoissonMeshes ==
    { TriangleMesh(<<>>, <<>>),
      TriangleMesh(<<PA, PB, PC>>, << <<1, 2, 3>> >>),
      TriangleMesh(<<PA, PB, PC, PB>>, << <<1, 2, 3>>, <<1, 4, 3>> >>) }

-----------------------------------------------------------------------------
(* Actions *)

Done(s) == Append(trace, s)

Receive ==
    /\ pc \in { "idle", "done", "failed" }
    /\ model_state = "ready"
    /\ nreq < MaxRequests
    /\ nreq' = nreq + 1
    /\ image_path' \in RequestPaths
    /\ file' \in RequestFiles
    /\ pc' = "open"
    /\ pil_image' = NoGrid /\ model_out' = NoGrid /\ pred_dtm' = NoGrid
    /\ image_scaled' = NoGrid
    /\ points' = NoArray /\ colors' = NoArray /\ written' = NoArray
    /\ i' = 0 /\ j' = 0 /\ pcd' = NoPcd
    /\ mesh' = NoMesh /\ recon' = NoMesh /\ before' = NoMesh
    /\ out_path' = <<>> /\ render' = NoRender /\ result' = NoResult
    /\ trace' = <<>> /\ raised_at' = "" /\ write_ok' = "unset"
    /\ fs0' = fs
    /\ UNCHANGED <<load_vars, fs, served, all_ok>>

\* an exception leaves predict: nothing catches it
Raises ==
    /\ pc' = "failed"
    /\ raised_at' = pc
    /\ result' = [kind |-> "error", data |-> NoRender, path |-> <<>>]
    /\ all_ok' = FALSE
    /\ UNCHANGED <<load_vars, grid_vars, cloud_vars, mesh_vars, image_path, file,
                   out_path, fs, fs0, render, trace, write_ok, served, nreq>>

\* a library call fails
Raise ==
    /\ pc \in Fallible
    /\ Raises

Advance ==
    /\ pc' = NextStage(pc)
    /\ trace' = Done(pc)
    /\ UNCHANGED <<load_vars, image_path, file, fs0, raised_at, all_ok, nreq>>

\* pil_image = Image.open(image_path).convert("L")
Open ==
    /\ pc = "open"
    /\ file.ok
    /\ pil_image' = file.img
    /\ Advance
    /\ UNCHANGED <<model_out, pred_dtm, image_scaled, cloud_vars, mesh_vars,
                   out_path, fs, render, result, write_ok, served>>

\* the file is no image: Image.open raises
OpenFails ==
    /\ pc = "open"
    /\ ~file.ok
    /\ Raises

\* torch_image = to_tensor(pil_image).to(device).unsqueeze(0)
ToTensor ==
    /\ pc = "to_tensor"
    /\ Advance
    /\ UNCHANGED <<grid_vars, cloud_vars, mesh_vars, out_path, fs, render, result,
                   write_ok, served>>

\* pred_dtm = model(torch_image)
Model ==
    /\ pc = "model"
    /\ \E g \in PredictorOutputs(pil_image) :
        /\ model_out' = g
        /\ pred_dtm' = g
    /\ Advance
    /\ UNCHANGED <<pil_image, image_scaled, cloud_vars, mesh_vars, out_path, fs,
                   render, result, write_ok, served>>

\* pred_dtm = pred_dtm.squeeze().cpu().detach().numpy()
SqueezeStep ==
    /\ pc = "squeeze"
    /\ pred_dtm' = Squeeze(pred_dtm)
    /\ Advance
    /\ UNCHANGED <<pil_image, model_out, image_scaled, cloud_vars, mesh_vars,
                   out_path, fs, render, result, write_ok, served>>

\* pred_dtm = pred_dtm.max() - pred_dtm
InvertStep ==
    /\ pc = "invert"
    /\ pred_dtm' = Invert(pred_dtm)
    /\ Advance
    /\ UNCHANGED <<pil_image, model_out, image_scaled, cloud_vars, mesh_vars,
                   out_path, fs, render, result, write_ok, served>>

\* image_scaled = np.asarray(pil_image) / 255.0
ScaleStep ==
    /\ pc = "scale"
    /\ image_scaled' = ScaleImage(pil_image)
    /\ Advance
    /\ UNCHANGED <<pil_image, model_out, pred_dtm, cloud_vars, mesh_vars,
                   out_path, fs, render, result, write_ok, served>>

\* points = np.zeros(...); colors = np.zeros(...)
GmAlloc ==
    /\ pc = "gm_alloc"
    /\ points' = ZeroPoints
    /\ colors' = ZeroColors
    /\ written' = [k \in 0 .. W * H - 1 |-> 0]
    /\ i' = 0
    /\ j' = 0
    /\ Advance
    /\ UNCHANGED <<grid_vars, pcd, mesh_vars, out_path, fs, render, result,
                   write_ok, served>>

\* one pass of the body of "for i in range(H): for j in range(W):"
GmLoop ==
    /\ pc = "gm_loop"
    /\ InBounds(pred_dtm, i, j)
    /\ InBounds(image_scaled, i, j)
    /\ points' = [points EXCEPT ![CloudIndex(i, j)] = PointAt(pred_dtm, i, j)]
    /\ colors' = [colors EXCEPT ![CloudIndex(i, j)] = ColorAt(image_scaled, i, j)]
    /\ written' = [written EXCEPT ![CloudIndex(i, j)] = @ + 1]
    /\ IF j + 1 < W
       THEN /\ j' = j + 1
            /\ i' = i
            /\ UNCHANGED <<pc, trace>>
       ELSE /\ j' = 0
            /\ i' = i + 1
            /\ IF i + 1 < H
               THEN UNCHANGED <<pc, trace>>
               ELSE pc' = NextStage(pc) /\ trace' = Done(pc)
    /\ UNCHANGED <<load_vars, grid_vars, pcd, mesh_vars, image_path, file, out_path,
                   fs, fs0, render, result, raised_at, write_ok, served, all_ok, nreq>>

\* dtm[i, j] or image[i, j] is out of the array's bounds: IndexError
GmIndexError ==
    /\ pc = "gm_loop"
    /\ ~(InBounds(pred_dtm, i, j) /\ InBounds(image_scaled, i, j))
    /\ Raises

\* pcd = PointCloud(); pcd.points = ...; pcd.colors = ...
GmPcd ==
    /\ pc = "gm_pcd"
    /\ pcd' = [points |-> points, colors |-> colors, normals |-> "none"]
    /\ Advance
    /\ UNCHANGED <<grid_vars, points, colors, written, i, j, mesh_vars, out_path,
                   fs, render, result, write_ok, served>>

\* pcd.estimate_normals()
EstimateNormals ==
    /\ pc = "estimate_normals"
    /\ pcd' = [pcd EXCEPT !.normals = "estimated"]
    /\ Advance
    /\ UNCHANGED <<grid_vars, points, colors, written, i, j, mesh_vars, out_path,
                   fs, render, result, write_ok, served>>

\* pcd.orient_normals_to_align_with_direction()
OrientNormals ==
    /\ pc = "orient_normals"
    /\ pcd' = [pcd EXCEPT !.normals = "oriented"]
    /\ Advance
    /\ UNCHANGED <<grid_vars, points, colors, written, i, j, mesh_vars, out_path,
                   fs, render, result, write_ok, served>>

\* mesh = TriangleMesh.create_from_point_cloud_poisson(pcd, depth=7, n_threads=1)[0]
Poisson ==
    /\ pc = "poisson"
    /\ \E m \in PoissonMeshes :
        /\ mesh' = m
        /\ recon' = m
        /\ before' = m
    /\ Advance
    /\ UNCHANGED <<grid_vars, cloud_vars, out_path, fs, render, result, write_ok,
                   served>>

\* mesh.rotate(...), mesh.compute_vertex_normals() and the four mesh.remove_*()
PostStep ==
    /\ pc \in PostStages
    /\ before' = mesh
    /\ mesh' = PostProcess(pc, mesh)
    /\ Advance
    /\ UNCHANGED <<grid_vars, cloud_vars, recon, out_path, fs, render, result,
                   write_ok, served>>

\* out_path = f"{image_path.stem}.obj"; o3d.io.write_triangle_mesh(out_path, mesh)
Export ==
    /\ pc = "export"
    /\ out_path' = OutPath(image_path)
    /\ fs' = (OutPath(image_path) :> mesh) @@ fs
    /\ write_ok' = "true"
    /\ Advance
    /\ UNCHANGED <<grid_vars, cloud_vars, mesh_vars, render, result, served>>

\* write_triangle_mesh reports a failed write by returning False, not by
\* raising; the statement drops the value returned and predict goes on
ExportNotWritten ==
    /\ pc = "export"
    /\ out_path' = OutPath(image_path)
    /\ write_ok' = "false"
    /\ Advance
    /\ UNCHANGED <<grid_vars, cloud_vars, mesh_vars, fs, render, result, served>>

\* fig, ax = plt.subplots(); im = ax.imshow(...); plt.colorbar(im, ax=ax)
Imshow ==
    /\ pc = "imshow"
    /\ render' = RenderArgs(pred_dtm)
    /\ Advance
    /\ UNCHANGED <<grid_vars, cloud_vars, mesh_vars, out_path, fs, result,
                   write_ok, served>>

\* fig.canvas.draw(); data = np.frombuffer(...).reshape(...)
Draw ==
    /\ pc = "draw"
    /\ Advance
    /\ UNCHANGED <<grid_vars, cloud_vars, mesh_vars, out_path, fs, render, result,
                   write_ok, served>>

\* return [data, obj_path]
Return ==
    /\ pc = "return"
    /\ result' = [kind |-> "ok", data |-> render, path |-> out_path]
    /\ served' = (out_path :> mesh) @@ served
    /\ Advance
    /\ UNCHANGED <<grid_vars, cloud_vars, mesh_vars, out_path, fs, render, write_ok>>

-----------------------------------------------------------------------------
(* The service: the model is loaded, requests come one after the other *)

LoadedCkpt ==
    [k \in { <<"m","o","d","e","l",".">> \o s : s \in ExpectedKeys } |-> "t1"]

Idle ==
    /\ pc = "idle"
    /\ image_path = <<>> /\ file = Undecodable
    /\ pil_image = NoGrid /\ model_out = NoGrid /\ pred_dtm = NoGrid
    /\ image_scaled = NoGrid
    /\ points = NoArray /\ colors = NoArray /\ written = NoArray
    /\ i = 0 /\ j = 0 /\ pcd = NoPcd
    /\ mesh = NoMesh /\ recon = NoMesh /\ before = NoMesh
    /\ out_path = <<>> /\ render = NoRender /\ result = NoResult
    /\ trace = <<>> /\ raised_at = "" /\ write_ok = "unset"
    /\ fs = NoFiles /\ fs0 = NoFiles /\ served = NoFiles
    /\ all_ok = TRUE /\ nreq = 0

\* the process as it starts: the checkpoint is read, no request has come
InitStartup ==
    /\ InitLoad
    /\ Idle

SpecLoad == InitStartup /\ [][LoadModel]_vars

Init ==
    /\ ckpt = LoadedCkpt
    /\ weights \in Rekeyed(ckpt)
    /\ model_state = "ready"
    /\ Idle

Next ==
    \/ Receive \/ Raise
    \/ Open \/ OpenFails \/ ToTensor \/ Model \/ SqueezeStep \/ InvertStep \/ ScaleStep
    \/ GmAlloc \/ GmLoop \/ GmIndexError \/ GmPcd \/ EstimateNormals \/ OrientNormals
    \/ Poisson \/ PostStep \/ Export \/ ExportNotWritten
    \/ Imshow \/ Draw \/ Return

Spec == Init /\ [][Next]_vars

-----------------------------------------------------------------------------
(* generate_mesh's point-cloud loop on every grid of the bounded family:    *)
(* a request that has reached the first statement of generate_mesh         *)

Completed(s) == \E n \in 1 .. Len(trace) : trace[n] = s

Shapes == (GridSize - 1 .. GridSize + 1) \X (GridSize - 1 .. GridSize + 1)

Images ==
    { LinearGrid(sh[1], sh[2], a, b, d, MaxPixel) :
        sh \in Shapes, a \in 0 .. MaxPixel, b \in 0 .. MaxPixel, d \in 0 .. MaxPixel }

DepthsFor(img) ==
    { LinearGrid(img.shape[1], img.shape[2], a, b, d, MaxDepth) :
        a \in 0 .. MaxDepth, b \in 0 .. MaxDepth, d \in 0 .. MaxDepth }

\* the state of the first request once it has run the statements before s
\* on image img with network output out
Running(s, path, img, out) ==
    /\ pc = s
    /\ trace = SubSeq(StageOrder, 1, StageIndex(s) - 1)
    /\ image_path = path
    /\ file = [ok |-> TRUE, img |-> img]
    /\ pil_image = img
    /\ model_out = out
    /\ pred_dtm = Invert(Squeeze(out))
    /\ image_scaled = ScaleImage(img)
    /\ out_path = <<>> /\ render = NoRender /\ result = NoResult
    /\ raised_at = "" /\ write_ok = "unset"
    /\ fs = NoFiles /\ fs0 = NoFiles /\ served = NoFiles
    /\ all_ok = TRUE /\ nreq = 1

InitCloud ==
    /\ ckpt = LoadedCkpt
    /\ weights \in Rekeyed(ckpt)
    /\ model_state = "ready"
    /\ \E img \in Images : \E out \in DepthsFor(img) :
          Running("gm_alloc", << "up", "/", "a", ".", "png" >>, img, out)
    /\ points = NoArray /\ colors = NoArray /\ written = NoArray
    /\ i = 0 /\ j = 0 /\ pcd = NoPcd
    /\ mesh = NoMesh /\ recon = NoMesh /\ before = NoMesh

NextCloud == GmAlloc \/ GmLoop \/ GmIndexError \/ GmPcd

SpecCloud == InitCloud /\ [][NextCloud]_vars

-----------------------------------------------------------------------------
(* generate_mesh's post-processing on every mesh of a bounded family: a     *)
(* request whose reconstruction has just returned                          *)

VertexLayouts ==
    { <<>>, <<PA>>, <<PA, PB>>, <<PA, PB, PC>> }
    \cup { <<PA, PB, PC, x>> : x \in { PB, PD, PE } }
    \cup { <<PA, PB, PC, x, PF>> : x \in { PB, PD, PE } }

\* the triangles on vertex 1 of a mesh of nv vertices
Triples(nv) == { <<1, b, c>> : b \in 1 .. nv, c \in 1 .. nv }

TripleRank(tri) == tri[2] * 8 + tri[3]

\* the triangle lists of n triangles on vertex 1, one per multiset
RECURSIVE ListsOf(_, _)
ListsOf(nv, n) ==
    IF n = 0 THEN { <<>> }
    ELSE { Append(y[1], y[2]) :
             y \in { z \in ListsOf(nv, n - 1) \X Triples(nv) :
                       Len(z[1]) = 0 \/ TripleRank(z[1][Len(z[1])]) <= TripleRank(z[2]) } }

\* the meshes of the family: a vertex layout and at most MaxTris triangles
InMeshFamily(m) ==
    \E v \in VertexLayouts : \E n \in 0 .. MaxTris : \E t \in ListsOf(Len(v), n) :
        m = TriangleMesh(v, t)

\* the arrays the loop leaves for a grid of the fixed shape
BuiltPoints(dtm) == [k \in 0 .. W * H - 1 |-> PointAt(dtm, k \div H, k % H)]
BuiltColors(image) == [k \in 0 .. W * H - 1 |-> ColorAt(image, k \div H, k % H)]

InitPost ==
    /\ ckpt = LoadedCkpt
    /\ weights \in Rekeyed(ckpt)
    /\ model_state = "ready"
    /\ Running("rotate", << "up", "/", "a", ".", "png" >>,
               LinearGrid(H, W, 1, 2, 0, MaxPixel), LinearGrid(H, W, 1, 2, 0, MaxDepth))
    /\ points = BuiltPoints(pred_dtm)
    /\ colors = BuiltColors(image_scaled)
    /\ written = [k \in 0 .. W * H - 1 |-> 1]
    /\ i = H /\ j = 0
    /\ pcd = [points |-> points, colors |-> colors, normals |-> "oriented"]
    /\ InMeshFamily(mesh)
    /\ recon = mesh
    /\ before = mesh

NextPost == PostStep \/ Export \/ ExportNotWritten

SpecPost == InitPost /\ [][NextPost]_vars

-----------------------------------------------------------------------------
(* Properties *)

FixedShape(g) == g.shape = <<H, W>>

PixelCells == Cells(H, W)

\* C1: once the loop has ended on grids of the fixed shape H x W, there are
\* exactly H*W points, the point at index i*H + j is (|j - W|, i, dtm[i][j]),
\* every index was assigned exactly once, and the point cloud holds these points.
C1_PointCloudLayout ==
    (Completed("gm_loop") /\ FixedShape(pil_image)) =>
        /\ DOMAIN points = 0 .. H * W - 1
        /\ Cardinality(DOMAIN points) = H * W
        /\ \A c \in PixelCells :
              /\ points[c[1] * H + c[2]][1] = Abs(c[2] - W)
              /\ points[c[1] * H + c[2]][2] = c[1]
              /\ points[c[1] * H + c[2]][3] = pred_dtm.at[c]
        /\ \A k \in DOMAIN points : written[k] = 1
        /\ (Completed("gm_pcd") => pcd.points = points)

C1_Witness ==
    /\ Completed("gm_pcd")
    /\ FixedShape(pil_image)
    /\ Cardinality(GridValues(pred_dtm)) > 1

\* C2: an image whose size is not H x W never gets through the point-cloud
\* loop: the request fails instead of building a cloud from it.
C2_ShapeMismatchRejected ==
    Completed("gm_loop") => FixedShape(pil_image)

\* C3: once the loop has ended on grids of the fixed shape, the colour at index
\* i*H + j is image[i][j] in all three channels, at the index that holds the
\* position of pixel (i, j); a uniform image gives one colour for all points.
C3_ColorsPositional ==
    (Completed("gm_loop") /\ FixedShape(pil_image)) =>
        /\ DOMAIN colors = DOMAIN points
        /\ \A c \in PixelCells :
              /\ colors[c[1] * H + c[2]] =
                    <<image_scaled.at[c], image_scaled.at[c], image_scaled.at[c]>>
              /\ points[c[1] * H + c[2]][2] = c[1]
              /\ points[c[1] * H + c[2]][1] = Abs(c[2] - W)
        /\ (Cardinality(GridValues(image_scaled)) = 1 =>
              \A k \in DOMAIN colors : \A v \in GridValues(image_scaled) :
                  colors[k] = <<v, v, v>>)
        /\ (Completed("gm_pcd") => pcd.colors = colors)

C3_Witness ==
    /\ Completed("gm_pcd")
    /\ FixedShape(pil_image)
    /\ Cardinality(GridValues(image_scaled)) > 1
    /\ \E c \in PixelCells : image_scaled.at[c][1] > 0

\* C4: a stage that fails ends the request: no later stage runs, nothing is
\* returned, and the request leaves no output behind.
C4_FailureAbortsCleanly ==
    /\ (raised_at # "" =>
          /\ pc = "failed"
          /\ result.kind = "error"
          /\ ~Completed(raised_at))
    /\ (write_ok = "false" => (~Completed("imshow") /\ result.kind # "ok"))
    /\ (pc = "failed" => fs = fs0)

\* C5: a request that returns has written exactly one file, <stem>.obj, holding
\* its mesh, and returns that name; while every request has succeeded, each
\* file returned so far holds the mesh of the latest request that returned it.
C5_ExportedFileIsLatest ==
    /\ (pc = "done" =>
          /\ result.path = Stem(image_path) \o << ".", "obj" >>
          /\ result.path \in DOMAIN fs
          /\ fs[result.path] = mesh
          /\ \A n \in DOMAIN fs \ { result.path } : n \in DOMAIN fs0 /\ fs[n] = fs0[n])
    /\ ((all_ok /\ pc \in { "idle", "done" }) =>
          \A n \in DOMAIN served : n \in DOMAIN fs /\ fs[n] = served[n])

\* C6: the colour scale of imshow runs from 0 to the maximum of the request's
\* inverted grid, which is the spread of the network's output; the grid's
\* values fill the scale from end to end, and the two ends coincide exactly
\* when the grid is constant.
C6_RenderScale ==
    render.called =>
        /\ render.grid = pred_dtm
        /\ render.vmin = 0
        /\ render.vmax = GridMax(model_out) - GridMin(model_out)
        /\ \A v \in GridValues(render.grid) : render.vmin <= v /\ v <= render.vmax
        /\ render.vmin \in GridValues(render.grid)
        /\ render.vmax \in GridValues(render.grid)
        /\ (Cardinality(GridValues(model_out)) > 1 <=> render.vmin < render.vmax)

C6_Witness ==
    /\ pc = "done"
    /\ render.called
    /\ Cardinality(GridValues(model_out)) > 1
    /\ render.vmax > 0

SharedPrefix(c) ==
    /\ DOMAIN c # {}
    /\ \A k1 \in DOMAIN c : \A k2 \in DOMAIN c :
          Len(k1) >= 6 /\ SubSeq(k1, 1, 6) = SubSeq(k2, 1, 6)

Suffixes(c) == { SubSeq(k, 7, Len(k)) : k \in DOMAIN c }

\* C7: for a checkpoint whose keys share one 6-character prefix, load_model
\* drops exactly those 6 characters of every key, keeps as many keys as there
\* were, each with its value, and the load succeeds exactly when the new keys
\* are the network's.
C7_PrefixStripped ==
    (model_state # "unloaded" /\ SharedPrefix(ckpt)) =>
        /\ DOMAIN weights = Suffixes(ckpt)
        /\ Cardinality(DOMAIN weights) = Cardinality(DOMAIN ckpt)
        /\ \A k \in DOMAIN ckpt :
              /\ weights[SubSeq(k, 7, Len(k))] = ckpt[k]
              /\ SubSeq(k, 1, 6) \o SubSeq(k, 7, Len(k)) = k
        /\ (Suffixes(ckpt) = ExpectedKeys <=> model_state = "ready")

C7_Witness ==
    /\ model_state = "ready"
    /\ SharedPrefix(ckpt)
    /\ Cardinality(DOMAIN ckpt) = 2
    /\ \E k1 \in DOMAIN ckpt : \E k2 \in DOMAIN ckpt : ckpt[k1] # ckpt[k2]

EmptyMesh(m) == NumVertices(m) = 0 /\ NumTriangles(m) = 0

C9_CleanupIdempotent ==
    Completed("non_manifold") =>
        /\ NumVertices(Cleanup(mesh)) = NumVertices(mesh)
        /\ NumTriangles(Cleanup(mesh)) = NumTriangles(mesh)

Position(s) == CHOOSE n \in 1 .. Len(trace) : trace[n] = s

Precedes(a, b) == Completed(b) => (Completed(a) /\ Position(a) < Position(b))

\* C10: within a request no statement runs twice; prediction and inversion come
\* before the point-cloud loop; generate_mesh runs normal estimation, normal
\* orientation, reconstruction, rotation, vertex normals, the four clean-up calls
\* and the export in that order; imshow comes after the export and is given the
\* grid whose values are the z of the points.
C10_StageOrder ==
    /\ \A n \in 1 .. Len(trace) : \A m \in 1 .. Len(trace) : trace[n] = trace[m] => n = m
    /\ Precedes("model", "invert") /\ Precedes("invert", "gm_loop")
    /\ Precedes("gm_loop", "estimate_normals")
    /\ Precedes("estimate_normals", "orient_normals")
    /\ Precedes("orient_normals", "poisson")
    /\ Precedes("poisson", "rotate")
    /\ Precedes("rotate", "vertex_normals")
    /\ Precedes("vertex_normals", "degenerate")
    /\ Precedes("degenerate", "dup_triangles")
    /\ Precedes("dup_triangles", "dup_vertices")
    /\ Precedes("dup_vertices", "non_manifold")
    /\ Precedes("non_manifold", "export")
    /\ Precedes("export", "imshow")
    /\ (render.called =>
          /\ render.grid = pred_dtm
          /\ \A c \in PixelCells : points[c[1] * H + c[2]][3] = render.grid.at[c])

C10_Witness ==
    /\ pc = "done"
    /\ Len(trace) = 22
    /\ FixedShape(pil_image)

====
